---- MODULE Spec2Model ----
(***************************************************************************)
(* ENTSO-E ingestion pipeline (scripts/ingest_entsoe_data.py).             *)
(*                                                                         *)
(* Strings are sequences of one-character strings, so that the column      *)
(* sanitizer and the table-name resolver are computed character by         *)
(* character, as the code does.  A fetched table is a record of its index  *)
(* name, its column labels (each a tuple of level values) and its row      *)
(* count.  The warehouse is a bag of persisted rows.                       *)
(***************************************************************************)
EXTENDS Integers, Sequences, FiniteSets, Bags, TLC

VARIABLES
    pc,         \* position of main(): "fetch", "load", "done", or "aborted"
                \* when an exception has left main(); "idle" outside a run
    countries,  \* config['countries'].keys(), in configuration order
    documents,  \* config['documents'], the document-type codes in order
    datesOk,    \* whether the date range can be localized to Europe/Brussels
    ci,         \* index of the current country
    di,         \* index of the current document
    run,        \* number of the current run of the pipeline
    df,         \* what fetch_data returned for the current pair
    calls,      \* the fetch_data invocations of the current run, in order
    writes,     \* the load_table_from_dataframe invocations of the current run
    bq,         \* the warehouse: a bag of persisted rows
    loaded,     \* the rows of the loads that returned True, over all runs
    last,       \* what the last fetch_data / load_to_bigquery call did
    arg,        \* input of the pure function under check
    out,        \* its result
    fpc         \* "idle", "input" or "done"

vars == <<pc, countries, documents, datesOk, ci, di, run, df, calls, writes,
          bq, loaded, last, arg, out, fpc>>

pipelineVars == <<pc, countries, documents, datesOk, ci, di, run, df, calls,
                  writes, bq, loaded, last>>

functionVars == <<arg, out, fpc>>

----------------------------------------------------------------------------
(* Bounds *)

MaxNameLen == 3     \* longest enumerated raw column name
MaxCodeLen == 3     \* longest enumerated document-type code
MaxCols == 2        \* most columns of an enumerated fetched table
MaxDocs == 2        \* most configured documents
MaxRuns == 2        \* most runs of the pipeline over the same warehouse

----------------------------------------------------------------------------
(* Characters and strings *)

UpperLetters ==
    <<"A","B","C","D","E","F","G","H","I","J","K","L","M",
      "N","O","P","Q","R","S","T","U","V","W","X","Y","Z">>

LowerLetters ==
    <<"a","b","c","d","e","f","g","h","i","j","k","l","m",
      "n","o","p","q","r","s","t","u","v","w","x","y","z">>

Digits == {"0","1","2","3","4","5","6","7","8","9"}

Range(s) == {s[i] : i \in DOMAIN s}

\* str.lower() on one character: ASCII capitals, and the non-ASCII capital
\* of the alphabet, are mapped to their small letters; the rest is kept.
LowerOf ==
    [c \in Range(UpperLetters) \cup {"É"} |->
        IF c = "É" THEN "é"
        ELSE LowerLetters[CHOOSE i \in 1..26 : UpperLetters[i] = c]]

LowerChar(c) == IF c \in DOMAIN LowerOf THEN LowerOf[c] ELSE c

\* str.lower()
Lower(s) == [i \in 1..Len(s) |-> LowerChar(s[i])]

\* the character class [a-z0-9_] of the regular expression of line 43
KeptChars == Range(LowerLetters) \cup Digits \cup {"_"}

KeptChar(c) == c \in KeptChars

\* re.sub(r'[^a-z0-9_]', '_', s)
ReplaceSpecial(s) == [i \in 1..Len(s) |-> IF KeptChar(s[i]) THEN s[i] ELSE "_"]

\* re.sub(r'_+', '_', s)
RECURSIVE CollapseUnderscores(_)
CollapseUnderscores(s) ==
    IF Len(s) <= 1 THEN s
    ELSE IF s[1] = "_" /\ s[2] = "_" THEN CollapseUnderscores(Tail(s))
    ELSE <<s[1]>> \o CollapseUnderscores(Tail(s))

\* str.lstrip(chars), str.rstrip(chars), str.strip(chars)
RECURSIVE LStrip(_, _)
LStrip(s, chars) ==
    IF s # <<>> /\ s[1] \in chars THEN LStrip(Tail(s), chars) ELSE s

RECURSIVE RStrip(_, _)
RStrip(s, chars) ==
    IF s # <<>> /\ s[Len(s)] \in chars
    THEN RStrip(SubSeq(s, 1, Len(s) - 1), chars) ELSE s

Strip(s, chars) == RStrip(LStrip(s, chars), chars)

\* a plausible slip: the leading and trailing underscores are kept
sanitize_keeps_edges(column_name) ==
    CollapseUnderscores(ReplaceSpecial(Lower(column_name)))

sanitize_column_name(column_name) ==
    LET lowered   == Lower(column_name)
        replaced  == ReplaceSpecial(lowered)
        collapsed == CollapseUnderscores(replaced)
    IN  Strip(collapsed, {"_"})

----------------------------------------------------------------------------
(* Document-type codes and table names *)

A75 == <<"A","7","5">>
A73 == <<"A","7","3">>
A68 == <<"A","6","8">>
X1  == <<"X","1">>

TABLE_NAME_MAPPING ==
    [c \in {A75, A73, A68} |->
        CASE c = A75 -> <<"b","r","o","n","z","e","_","e","n","t","s","o","e","_",
                          "a","7","5","_","a","c","t","u","a","l","_",
                          "g","e","n","e","r","a","t","i","o","n">>
          [] c = A73 -> <<"b","r","o","n","z","e","_","e","n","t","s","o","e","_",
                          "a","7","3","_","g","e","n","e","r","a","t","i","o","n","_",
                          "f","o","r","e","c","a","s","t">>
          [] c = A68 -> <<"b","r","o","n","z","e","_","e","n","t","s","o","e","_",
                          "a","6","8","_","i","n","s","t","a","l","l","e","d","_",
                          "c","a","p","a","c","i","t","y">>]

BronzePrefix == <<"b","r","o","n","z","e","_","e","n","t","s","o","e","_">>

\* a plausible slip: the fallback name keeps the code's case
get_table_name_keeps_case(document_type) ==
    IF document_type \in DOMAIN TABLE_NAME_MAPPING
    THEN TABLE_NAME_MAPPING[document_type]
    ELSE BronzePrefix \o document_type

get_table_name(document_type) ==
    IF document_type \in DOMAIN TABLE_NAME_MAPPING
    THEN TABLE_NAME_MAPPING[document_type]
    ELSE BronzePrefix \o Lower(document_type)

----------------------------------------------------------------------------
(* Fetched tables and their preparation (load_to_bigquery, steps 0 to 1.5) *)

\* A fetched table: index_named/index_name are the name of its time index
\* (df.index.name, None when index_named is FALSE), nlevels the number of
\* levels of its column labels, columns its labels (each a tuple of nlevels
\* strings, pairwise distinct), nrows its number of rows.

EmptyName == <<>>

IndexLabel == <<"i","n","d","e","x">>
Level0Label == <<"l","e","v","e","l","_","0">>

CountryCodeColumn == <<"c","o","u","n","t","r","y","_","c","o","d","e">>
DocumentTypeColumn == <<"d","o","c","u","m","e","n","t","_","t","y","p","e">>
IngestionTimestampColumn ==
    <<"i","n","g","e","s","t","i","o","n","_","t","i","m","e","s","t","a","m","p">>

\* df is None or df.empty
IsEmptyTable(t) == t.nrows = 0 \/ t.columns = <<>>

\* `key in df`: for hierarchical columns a string matches the first level
InFrame(t, key) == \E i \in DOMAIN t.columns : t.columns[i][1] = key

\* the name DataFrame.reset_index gives the materialized index
ResetIndexName(t) ==
    IF t.index_named THEN t.index_name
    ELSE IF ~InFrame(t, IndexLabel) THEN IndexLabel ELSE Level0Label

\* the label it is inserted under: the name, padded with '' to nlevels
ResetIndexColumn(t) ==
    [l \in 1..t.nlevels |-> IF l = 1 THEN ResetIndexName(t) ELSE EmptyName]

\* DataFrame.insert refuses a label the frame already has (ValueError)
ResetIndexRaises(t) == ResetIndexColumn(t) \in Range(t.columns)

\* df.reset_index(): the index becomes the first column
ResetIndex(t) == <<ResetIndexColumn(t)>> \o t.columns

\* '_'.join(map(str, col))
RECURSIVE JoinLevels(_)
JoinLevels(col) ==
    IF Len(col) = 0 THEN <<>>
    ELSE IF Len(col) = 1 THEN col[1]
    ELSE col[1] \o <<"_">> \o JoinLevels(Tail(col))

\* steps 1.2 and 1.3: hierarchical labels are joined and stripped of
\* surrounding white space; flat labels are the strings themselves
FlattenColumns(cols, nlevels) ==
    [i \in 1..Len(cols) |->
        IF nlevels > 1 THEN Strip(JoinLevels(cols[i]), {" "}) ELSE cols[i][1]]

\* step 1.4
SanitizeColumns(cols) == [i \in 1..Len(cols) |-> sanitize_column_name(cols[i])]

\* df_prepared[name] = value: a new last column, or, when the frame already
\* has columns of that name, an overwrite of them
SetColumn(cols, name) == IF name \in Range(cols) THEN cols ELSE Append(cols, name)

\* step 1.5
AddMetadata(cols) ==
    SetColumn(SetColumn(SetColumn(cols, CountryCodeColumn), DocumentTypeColumn),
              IngestionTimestampColumn)

\* the table after steps 1.1 to 1.4
SanitizedColumns(t) == SanitizeColumns(FlattenColumns(ResetIndex(t), t.nlevels))

\* df_prepared, the table handed to load_table_from_dataframe
PreparedColumns(t) == AddMetadata(SanitizedColumns(t))

\* load_to_bigquery up to the remote steps: "skipped" for an empty table,
\* "raised" when reset_index fails, else the prepared column names
PrepareTable(t) ==
    IF IsEmptyTable(t) THEN [result |-> "skipped", base |-> <<>>, columns |-> <<>>]
    ELSE IF ResetIndexRaises(t) THEN [result |-> "raised", base |-> <<>>, columns |-> <<>>]
    ELSE [result |-> "prepared", base |-> SanitizedColumns(t),
          columns |-> PreparedColumns(t)]

----------------------------------------------------------------------------
(* The API adapter (fetch_data) *)

DOCUMENT_TYPE_MAPPING == {A75, A73, A68}

NullTable ==
    [index_named |-> FALSE, index_name |-> EmptyName, nlevels |-> 1,
     columns |-> <<>>, nrows |-> 0]

\* None
NoData == [present |-> FALSE, table |-> NullTable]

Data(t) == [present |-> TRUE, table |-> t]

\* fetch_data: dates_ok says whether tz_localize accepts both dates (it
\* refuses a local time that does not exist or is ambiguous in
\* Europe/Brussels), resolves whether the client has the query method,
\* response what the query answers (NoData: it raises).
fetch_data(document_type, dates_ok, resolves, response) ==
    IF ~dates_ok THEN [raised |-> TRUE, queried |-> FALSE, value |-> NoData]
    ELSE IF document_type \notin DOCUMENT_TYPE_MAPPING
    THEN [raised |-> FALSE, queried |-> FALSE, value |-> NoData]
    ELSE IF ~resolves THEN [raised |-> TRUE, queried |-> FALSE, value |-> NoData]
    ELSE IF ~response.present
    THEN [raised |-> FALSE, queried |-> TRUE, value |-> NoData]
    ELSE [raised |-> FALSE, queried |-> TRUE, value |-> response]

----------------------------------------------------------------------------
(* The warehouse loader (load_to_bigquery) *)

\* the rows of the prepared table: one per observation of the fetched table,
\* with the country and document metadata (the value of ingestion_timestamp,
\* the wall clock at the load, is left out of a row's identity)
PreparedRows(t, table, country_code, document_type) ==
    SetToBag({[table |-> table, country_code |-> country_code,
               document_type |-> document_type, obs |-> o] : o \in 1..t.nrows})

\* the load job of the warehouse service, by write disposition: WRITE_APPEND
\* adds the rows to the table's, WRITE_TRUNCATE replaces the table's rows,
\* WRITE_EMPTY refuses a table that has rows; persisted says whether the job
\* went through
LoadJob(warehouse, disposition, table, rows) ==
    LET others == {r \in BagToSet(warehouse) : r.table # table}
    IN  CASE disposition = "WRITE_APPEND" -> warehouse (+) rows
          [] disposition = "WRITE_TRUNCATE" -> [r \in others |-> warehouse[r]] (+) rows
          [] OTHER -> IF others = BagToSet(warehouse) THEN warehouse (+) rows
                      ELSE warehouse

\* a plausible slip: the load replaces the table
write_disposition_truncate == "WRITE_TRUNCATE"

\* job_config.write_disposition
write_disposition == "WRITE_APPEND"

\* What the remote side does: client_ok, whether bigquery.Client(...) can be
\* created; job, the fate of the load job:
\*   "done"      submitted, and job.result() returns
\*   "rejected"  load_table_from_dataframe raises
\*   "failed"    job.result() raises: the job failed, nothing is persisted
JobFates == {"done", "rejected", "failed"}

load_to_bigquery(value, table, country_code, document_type, client_ok, job) ==
    LET t == value.table
        p == IF value.present THEN PrepareTable(t)
             ELSE [result |-> "skipped", base |-> <<>>, columns |-> <<>>]
        nothing == [raised |-> FALSE, ret |-> FALSE, client |-> FALSE,
                    write |-> FALSE, persisted |-> FALSE, base |-> p.base,
                    columns |-> p.columns,
                    rows |-> PreparedRows(t, table, country_code, document_type)]
    IN  IF p.result = "skipped" THEN nothing
        ELSE IF p.result = "raised" THEN [nothing EXCEPT !.raised = TRUE]
        ELSE IF ~client_ok THEN [nothing EXCEPT !.raised = TRUE]
        ELSE IF job = "rejected" THEN [nothing EXCEPT !.client = TRUE, !.write = TRUE]
        ELSE IF job = "failed" THEN [nothing EXCEPT !.client = TRUE, !.write = TRUE]
        ELSE [nothing EXCEPT !.client = TRUE, !.write = TRUE, !.persisted = TRUE,
                             !.ret = TRUE]

----------------------------------------------------------------------------
(* The ingestion driver (main) *)

SeqsUpTo(S, n) == UNION {[1..k -> S] : k \in 0..n}

DistinctSeqsUpTo(S, n) ==
    {q \in SeqsUpTo(S, n) : \A i, j \in DOMAIN q : i # j => q[i] # q[j]}

CountryCodes == {"FR", "DE"}

\* the keys of a mapping are pairwise distinct
CountryLists == DistinctSeqsUpTo(CountryCodes, Cardinality(CountryCodes))

DocumentTypes == {A75, X1}

DocumentLists == SeqsUpTo(DocumentTypes, MaxDocs)

ActualLoad == <<"A","c","t","u","a","l"," ","L","o","a","d">>

\* what the market-data service may answer in a run of the driver
TwoRowTable ==
    [index_named |-> FALSE, index_name |-> EmptyName, nlevels |-> 1,
     columns |-> <<<<ActualLoad>>>>, nrows |-> 2]

ZeroRowTable == [TwoRowTable EXCEPT !.nrows = 0]

ClashingIndexTable ==
    [index_named |-> TRUE, index_name |-> ActualLoad, nlevels |-> 1,
     columns |-> <<<<ActualLoad>>>>, nrows |-> 1]

Responses == {NoData, Data(TwoRowTable), Data(ZeroRowTable), Data(ClashingIndexTable)}

NoCall ==
    [op |-> "none", country_code |-> "", document_type |-> <<>>, raised |-> FALSE,
     queried |-> FALSE, value |-> NoData, ret |-> FALSE, client |-> FALSE,
     write |-> FALSE, columns |-> <<>>, base |-> <<>>, rows |-> EmptyBag]

\* the (country, document) pairs in nested configuration order
RECURSIVE PairsFrom(_, _, _, _)
PairsFrom(cs, ds, c, d) ==
    IF c > Len(cs) \/ ds = <<>> THEN <<>>
    ELSE IF d > Len(ds) THEN PairsFrom(cs, ds, c + 1, 1)
    ELSE <<[country_code |-> cs[c], document |-> d]>> \o PairsFrom(cs, ds, c, d + 1)

ConfiguredPairs == PairsFrom(countries, documents, 1, 1)

LoopStart == IF ConfiguredPairs = <<>> THEN "done" ELSE "fetch"

\* the loop headers of lines 293 and 296
LastPair == di = Len(documents) /\ ci = Len(countries)

Advance ==
    /\ pc' = IF LastPair THEN "done" ELSE "fetch"
    /\ ci' = IF di = Len(documents) /\ ~LastPair THEN ci + 1 ELSE ci
    /\ di' = IF LastPair THEN di ELSE IF di = Len(documents) THEN 1 ELSE di + 1

InitPipeline ==
    /\ countries \in CountryLists
    /\ documents \in DocumentLists
    /\ datesOk \in BOOLEAN
    /\ pc = LoopStart
    /\ ci = 1
    /\ di = 1
    /\ run = 1
    /\ df = NoData
    /\ calls = <<>>
    /\ writes = <<>>
    /\ bq = EmptyBag
    /\ loaded = EmptyBag
    /\ last = NoCall

FunctionIdle == arg = <<>> /\ out = <<>> /\ fpc = "idle"

Init == InitPipeline /\ FunctionIdle

\* lines 299-305: one call of fetch_data and the test of its result
Fetch ==
    /\ pc = "fetch"
    /\ \E resolves \in BOOLEAN, response \in Responses :
          LET document_type == documents[di]
              r == fetch_data(document_type, datesOk, resolves, response)
          IN  /\ calls' = Append(calls, [country_code |-> countries[ci],
                                         document |-> di])
              /\ last' = [NoCall EXCEPT !.op = "fetch",
                                        !.country_code = countries[ci],
                                        !.document_type = document_type,
                                        !.raised = r.raised,
                                        !.queried = r.queried,
                                        !.value = r.value]
              /\ df' = r.value
              /\ IF r.raised THEN pc' = "aborted" /\ UNCHANGED <<ci, di>>
                 ELSE IF r.value.present THEN pc' = "load" /\ UNCHANGED <<ci, di>>
                 ELSE Advance
    /\ UNCHANGED <<countries, documents, datesOk, run, writes, bq, loaded>>
    /\ UNCHANGED functionVars

\* lines 306-317: get_table_name and one call of load_to_bigquery
Load ==
    /\ pc = "load"
    /\ \E client_ok \in BOOLEAN, job \in JobFates :
          LET document_type == documents[di]
              table_name == get_table_name(document_type)
              r == load_to_bigquery(df, table_name, countries[ci], document_type,
                                    client_ok, job)
          IN  /\ last' = [NoCall EXCEPT !.op = "load",
                                        !.country_code = countries[ci],
                                        !.document_type = document_type,
                                        !.raised = r.raised,
                                        !.value = df,
                                        !.ret = r.ret,
                                        !.client = r.client,
                                        !.write = r.write,
                                        !.columns = r.columns,
                                        !.base = r.base,
                                        !.rows = r.rows]
              /\ writes' = IF r.write
                           THEN Append(writes, [country_code |-> countries[ci],
                                                document |-> di])
                           ELSE writes
              /\ bq' = IF r.persisted
                       THEN LoadJob(bq, write_disposition, table_name, r.rows)
                       ELSE bq
              /\ loaded' = IF r.ret THEN loaded (+) r.rows ELSE loaded
              /\ IF r.raised THEN pc' = "aborted" /\ UNCHANGED <<ci, di>>
                 ELSE Advance
    /\ UNCHANGED <<countries, documents, datesOk, run, df, calls>>
    /\ UNCHANGED functionVars

\* the script is run again, with the same configuration and date range, on
\* the same warehouse
Rerun ==
    /\ pc \in {"done", "aborted"}
    /\ run < MaxRuns
    /\ run' = run + 1
    /\ pc' = LoopStart
    /\ ci' = 1
    /\ di' = 1
    /\ df' = NoData
    /\ calls' = <<>>
    /\ writes' = <<>>
    /\ last' = NoCall
    /\ UNCHANGED <<countries, documents, datesOk, bq, loaded>>
    /\ UNCHANGED functionVars

Next == Fetch \/ Load \/ Rerun

Spec == Init /\ [][Next]_vars

----------------------------------------------------------------------------
(* The pure functions, applied to enumerated inputs *)

PipelineIdle ==
    /\ pc = "idle"
    /\ countries = <<>>
    /\ documents = <<>>
    /\ datesOk = TRUE
    /\ ci = 1
    /\ di = 1
    /\ run = 1
    /\ df = NoData
    /\ calls = <<>>
    /\ writes = <<>>
    /\ bq = EmptyBag
    /\ loaded = EmptyBag
    /\ last = NoCall

\* raw column names: every string over NameChars up to MaxNameLen, and the
\* examples of the documentation
NameChars == {"A", "b", "1", "_", " ", "/", "É"}

ActualGenerationMW ==
    <<"A","c","t","u","a","l"," ","G","e","n","e","r","a","t","i","o","n","/","M","W">>

ProductionTotal ==
    <<"P","r","o","d","u","c","t","i","o","n",".","T","o","t","a","l">>

UnderscoredAB == <<"_","_","A","_","_","B","_","_">>

RawNames ==
    SeqsUpTo(NameChars, MaxNameLen)
        \cup {ActualGenerationMW, ProductionTotal, UnderscoredAB}

InitSanitize == PipelineIdle /\ arg \in RawNames /\ out = <<>> /\ fpc = "input"

ApplySanitize ==
    /\ fpc = "input"
    /\ out' = sanitize_column_name(arg)
    /\ fpc' = "done"
    /\ UNCHANGED arg
    /\ UNCHANGED pipelineVars

SanitizeSpec == InitSanitize /\ [][ApplySanitize]_vars

\* document-type codes: every string over CodeChars up to MaxCodeLen
CodeChars == {"A", "7", "5", "3", "6", "8", "X", "1", "a"}

Codes == SeqsUpTo(CodeChars, MaxCodeLen)

InitTableName == PipelineIdle /\ arg \in Codes /\ out = <<>> /\ fpc = "input"

ApplyTableName ==
    /\ fpc = "input"
    /\ out' = get_table_name(arg)
    /\ fpc' = "done"
    /\ UNCHANGED arg
    /\ UNCHANGED pipelineVars

TableNameSpec == InitTableName /\ [][ApplyTableName]_vars

\* fetched tables: flat or two-level column labels, pairwise distinct, up to
\* MaxCols of them, a named or unnamed index, with or without rows
ColumnNames ==
    {ActualLoad,
     <<"a","c","t","u","a","l","_","l","o","a","d">>,
     <<"C","o","u","n","t","r","y"," ","C","o","d","e">>,
     <<"B","/","M","W">>,
     <<"É">>,
     IndexLabel,
     Level0Label}

FlatLabels == {<<n>> : n \in ColumnNames}

TwoLevelLabels ==
    {<<<<"S","o","l","a","r">>, <<"A","c","t","u","a","l">>>>,
     <<<<"S","o","l","a","r"," ","A","c","t","u","a","l">>, EmptyName>>,
     <<<<"W","i","n","d">>, <<"A","c","t","u","a","l"," ">>>>,
     <<IndexLabel, EmptyName>>}

IndexNames == {ActualLoad, <<"t","i","m","e">>}

FetchedTables ==
    {[index_named |-> FALSE, index_name |-> EmptyName, nlevels |-> 1,
      columns |-> cols, nrows |-> n] :
        cols \in DistinctSeqsUpTo(FlatLabels, MaxCols), n \in {0, 2}}
    \cup
    {[index_named |-> TRUE, index_name |-> name, nlevels |-> 1,
      columns |-> cols, nrows |-> n] :
        cols \in DistinctSeqsUpTo(FlatLabels, MaxCols), n \in {0, 2},
        name \in IndexNames}
    \cup
    {[index_named |-> named, index_name |-> IF named THEN IndexLabel ELSE EmptyName,
      nlevels |-> 2, columns |-> cols, nrows |-> n] :
        cols \in DistinctSeqsUpTo(TwoLevelLabels, MaxCols), n \in {0, 2},
        named \in BOOLEAN}

InitPrepare == PipelineIdle /\ arg \in FetchedTables /\ out = <<>> /\ fpc = "input"

ApplyPrepare ==
    /\ fpc = "input"
    /\ out' = PrepareTable(arg)
    /\ fpc' = "done"
    /\ UNCHANGED arg
    /\ UNCHANGED pipelineVars

PrepareSpec == InitPrepare /\ [][ApplyPrepare]_vars

----------------------------------------------------------------------------
(* Properties *)

RunEnded == pc \in {"done", "aborted"}

IsPrefix(p, q) == Len(p) <= Len(q) /\ p = SubSeq(q, 1, Len(p))

\* What holds of the driver in every run, aborted or not: the invocations of
\* fetch_data follow the nested configuration order, and a run that reaches
\* its completion point has made all of them.
CallsFollowConfiguration ==
    /\ IsPrefix(calls, ConfiguredPairs)
    /\ (pc = "done" => calls = ConfiguredPairs)

\* C1: whatever each step of each pair does (data, no data, an unsupported
\* code, a failure resolving or invoking the query, a failure creating the
\* warehouse client, a failed write), main() is never aborted, and at its
\* completion point fetch_data has been attempted for every configured pair.
\* (Stated for date ranges that tz_localize accepts.)
C1_MainAlwaysCompletes ==
    datesOk => /\ pc # "aborted"
               /\ (pc = "done" => calls = ConfiguredPairs)

\* C2: in a run of main() over N countries and M documents, fetch_data is
\* invoked exactly N*M times, once per (country, document) pair, countries in
\* the outer loop and documents in the inner one, both in configuration order.
\* (The count is stated for date ranges that tz_localize accepts.)
C2_FetchOncePerPairInOrder ==
    /\ IsPrefix(calls, ConfiguredPairs)
    /\ (RunEnded /\ datesOk => /\ calls = ConfiguredPairs
                               /\ Len(calls) = Len(countries) * Len(documents))

\* C3: fetch_data never propagates a failure: it returns a table or None; an
\* unsupported code gives None without any remote query; a failure of the
\* client, in resolving the query operation or in invoking it, gives None.
\* (Stated for date ranges that tz_localize accepts.)
C3_FetchNeverPropagates ==
    last.op = "fetch" /\ datesOk =>
        /\ ~last.raised
        /\ (last.document_type \notin {A75, A73, A68} =>
                ~last.queried /\ ~last.value.present)

\* C4: load_to_bigquery never raises: whatever the table and whichever remote
\* step fails (creating the client, submitting the job, waiting for its
\* result) it returns False; it returns True only when the job was submitted
\* and its result obtained.  (Stated for tables that reset_index accepts.)
C4_LoadNeverRaises ==
    last.op = "load" /\ ~ResetIndexRaises(last.value.table) =>
        /\ ~last.raised
        /\ (last.ret => last.client /\ last.write)

NoDuplicates(q) == \A i, j \in DOMAIN q : i # j => q[i] # q[j]

FirstCountryPair == [country_code |-> "FR", document |-> 1]

EndToEndScenario == countries = <<"FR", "DE">> /\ documents = <<A75>> /\ datesOk

\* What holds of the remote writes in every run: one is invoked only for a
\* present, non-empty table, at most once per pair; None leads to no load
\* call; an empty table gives False with neither a client nor a write.
WritesOnlyForNonEmptyData ==
    /\ (last.op = "load" /\ last.write =>
            last.value.present /\ ~IsEmptyTable(last.value.table))
    /\ NoDuplicates(writes)
    /\ (last.op = "fetch" /\ ~last.value.present => pc # "load")
    /\ (last.op = "load" /\ IsEmptyTable(last.value.table) =>
            ~last.ret /\ ~last.client /\ ~last.write /\ ~last.raised)

\* C5: a remote write is attempted for a pair only if the adapter returned a
\* non-empty table for it, and at most once; None leads to no load attempt;
\* an empty table makes load_to_bigquery return False with neither a client
\* nor a write.  With countries FR, DE and document A75, two rows for FR and
\* an empty table for DE: one remote write, for FR, none for DE, no exception.
C5_WriteOnlyForData ==
    /\ WritesOnlyForNonEmptyData
    /\ (EndToEndScenario /\ last.op = "load" /\ last.country_code = "FR"
            /\ last.value = Data(TwoRowTable) =>
                ~last.raised /\ writes = <<FirstCountryPair>>)
    /\ (EndToEndScenario /\ last.op = "load" /\ last.country_code = "DE"
            /\ last.value = Data(ZeroRowTable) =>
                ~last.raised /\ ~last.write /\ Range(writes) \subseteq {FirstCountryPair})

\* a name of lowercase letters, digits and underscores only, with no leading,
\* trailing or doubled underscore
CleanName(n) ==
    /\ \A i \in DOMAIN n : n[i] \in Range(LowerLetters) \cup Digits \cup {"_"}
    /\ n # <<>> => n[1] # "_" /\ n[Len(n)] # "_"
    /\ \A i \in 1..(Len(n) - 1) : ~(n[i] = "_" /\ n[i + 1] = "_")

MetadataColumns == {CountryCodeColumn, DocumentTypeColumn, IngestionTimestampColumn}

\* C6: for a non-empty fetched table, the table handed to the remote write
\* has exactly three columns more than the table after reset_index,
\* flattening and sanitizing: country_code, document_type and
\* ingestion_timestamp; every original column is still there and none has a
\* character outside [a-z0-9_] in its name.
C6_ThreeMetadataColumnsAdded ==
    fpc = "done" /\ out.result = "prepared" =>
        /\ Len(out.columns) = Len(out.base) + 3
        /\ MetadataColumns \subseteq Range(out.columns)
        /\ SubSeq(out.columns, 1, Len(out.base)) = out.base
        /\ \A i \in DOMAIN out.base : Range(out.base[i]) \subseteq KeptChars

\* What holds of every prepared table: each column name is clean.
PreparedNamesClean ==
    fpc = "done" /\ out.result = "prepared" =>
        \A i \in DOMAIN out.columns : CleanName(out.columns[i])

\* C7: the column names of every prepared table are lowercase, made of
\* [a-z0-9_] only, without leading, trailing or consecutive underscores, and
\* pairwise distinct.
C7_PreparedNamesCleanAndDistinct ==
    fpc = "done" /\ out.result = "prepared" =>
        /\ \A i \in DOMAIN out.columns : CleanName(out.columns[i])
        /\ NoDuplicates(out.columns)

ActualGenerationMWClean ==
    <<"a","c","t","u","a","l","_","g","e","n","e","r","a","t","i","o","n","_","m","w">>

\* C8: sanitize_column_name is total; its result is empty or matches
\* ^[a-z0-9]*(_[a-z0-9]+)*$, with no leading, trailing or doubled underscore;
\* the empty name gives the empty name; "Actual Generation/MW" gives
\* "actual_generation_mw" and "__A__B__" gives "a_b".
C8_SanitizedNameIsClean ==
    fpc = "done" =>
        /\ CleanName(out)
        /\ (arg = <<>> => out = <<>>)
        /\ (arg = ActualGenerationMW => out = ActualGenerationMWClean)
        /\ (arg = UnderscoredAB => out = <<"a", "_", "b">>)

\* a name whose surrounding and doubled underscores had to be removed
C8_Witness ==
    /\ fpc = "done"
    /\ arg = <<"_", "A", " ">>
    /\ out = <<"a">>

\* C9: warehouse writes only add: a load that returns True appends exactly
\* the rows of the prepared table, no step removes or replaces a persisted
\* row, and every row a load reported loaded is persisted as many times as
\* it was loaded, so a second run over the same results doubles the rows.
C9_WritesOnlyAppend ==
    /\ [](loaded \sqsubseteq bq)
    /\ [][bq \sqsubseteq bq']_vars
    /\ [][pc = "load" /\ last'.ret => bq' = bq (+) last'.rows]_vars

\* the second run over one pair has loaded, and persisted, its rows again
C9_Witness ==
    /\ run = 2
    /\ pc = "done"
    /\ Len(ConfiguredPairs) = 1
    /\ last.op = "load" /\ last.ret
    /\ \A r \in BagToSet(last.rows) : CopiesIn(r, loaded) = 2 /\ CopiesIn(r, bq) = 2
    /\ BagToSet(last.rows) # {}

A75Table ==
    <<"b","r","o","n","z","e","_","e","n","t","s","o","e","_","a","7","5","_",
      "a","c","t","u","a","l","_","g","e","n","e","r","a","t","i","o","n">>

A73Table ==
    <<"b","r","o","n","z","e","_","e","n","t","s","o","e","_","a","7","3","_",
      "g","e","n","e","r","a","t","i","o","n","_","f","o","r","e","c","a","s","t">>

A68Table ==
    <<"b","r","o","n","z","e","_","e","n","t","s","o","e","_","a","6","8","_",
      "i","n","s","t","a","l","l","e","d","_","c","a","p","a","c","i","t","y">>

X1Table == <<"b","r","o","n","z","e","_","e","n","t","s","o","e","_","x","1">>

\* C10: get_table_name always returns a string: the fixed names for A75, A73
\* and A68, and for any other code bronze_entsoe_ followed by the code in
\* lowercase (X1 gives bronze_entsoe_x1).
C10_TableNameOfCode ==
    fpc = "done" =>
        /\ (arg = A75 => out = A75Table)
        /\ (arg = A73 => out = A73Table)
        /\ (arg = A68 => out = A68Table)
        /\ (arg = X1 => out = X1Table)
        /\ (arg \notin {A75, A73, A68} =>
                /\ Len(out) = Len(X1Table) - Len(X1) + Len(arg)
                /\ IsPrefix(SubSeq(X1Table, 1, Len(X1Table) - Len(X1)), out)
                /\ \A i \in DOMAIN arg :
                      LET c == out[Len(out) - Len(arg) + i]
                      IN  IF arg[i] \in Range(UpperLetters)
                          THEN /\ c \in Range(LowerLetters)
                               /\ \E k \in 1..26 : UpperLetters[k] = arg[i]
                                                      /\ LowerLetters[k] = c
                          ELSE c = arg[i])

\* an unknown code with a capital has been resolved to its derived name
C10_Witness ==
    /\ fpc = "done"
    /\ arg = X1
    /\ out = X1Table

====
